---- MODULE Spec2Model ----
(***************************************************************************)
(* Model of the two analysis scripts of the alpha-asymmetry repository:    *)
(*   analysis/recompute_tables.py      run_asymmetry_strategy, the         *)
(*                                     subsample stability loop            *)
(*   analysis/phase0_data_verification.py   EVT declustering, extremal     *)
(*                                     index, GPD guard, summary, results  *)
(*                                                                         *)
(* Numbers.  Skewness, thresholds, alphas, the Asymmetry Index and         *)
(* positions are integers in hundredths (0.75 is 75, a position of 1.5 is  *)
(* 150); weekly returns are integers in percent.  A missing value of an    *)
(* input column is NaN.  The statistics of a run are exact rationals       *)
(* <<n, d>>, d > 0, in lowest terms; <<0, 0>> is the floating-point nan.   *)
(* Bars are numbered from 0 as in the code; a column s holds bar t at      *)
(* s[t + 1].                                                               *)
(***************************************************************************)
EXTENDS Integers, Sequences, FiniteSets, TLC

VARIABLES
    \* run_asymmetry_strategy
    threshold,          \* the threshold argument
    long_signal,        \* Series long_signal, bars 0..len-1
    short_signal,       \* Series short_signal
    ai_20w,             \* column df['ai_20w']
    weekly_return,      \* column df['weekly_return']
    position,           \* Series position
    position_size,      \* Series position_size
    hold_counter,       \* Series hold_counter
    trade_count,        \* local trade_count
    metrics,            \* the returned dict, once the run is over
    pc,                 \* "loop" while the for loop runs, then "done"
    \* a second call of run_asymmetry_strategy, on another table
    twin,
    \* the subsample stability loop of recompute_tables.py
    subsamples,         \* dict subsamples, in iteration order
    subsample_results,  \* dict subsample_results, in insertion order
    engine_calls,       \* the calls of run_asymmetry_strategy made so far
    \* phase0_data_verification.py, sections 4 to 6 and the results file
    exceedance_indices, \* np.where(exceedances_mask)[0]
    cluster_labels,     \* list cluster_labels
    cluster_idx,        \* per cluster, the bars its maximum is taken over
    n_clusters,
    theta,
    defined,            \* the module-level names bound so far
    gpd_report,         \* what section 5 printed
    evt_pc,             \* the section about to run, "done" or "crashed"
    \* recompute_tables.py, section 2: the daily tail alpha
    daily_returns,      \* column df['returns']
    tail_alpha,         \* column df['tail_alpha']
    signal_pc           \* "tail" before the column is computed, then "done"

runVars == <<threshold, long_signal, short_signal, ai_20w, weekly_return,
             position, position_size, hold_counter, trade_count, metrics, pc>>

sweepVars == <<subsamples, subsample_results, engine_calls>>

evtVars == <<exceedance_indices, cluster_labels, cluster_idx, n_clusters,
             theta, defined, gpd_report, evt_pc>>

signalVars == <<daily_returns, tail_alpha, signal_pc>>

vars == <<runVars, twin, sweepVars, evtVars, signalVars>>

----------------------------------------------------------------------------
(* Floating-point values of the input columns *)

NaN == -9999

IsNaN(x) == x = NaN

\* x > y of two floats: False when either is nan
Gt(x, y) == ~IsNaN(x) /\ ~IsNaN(y) /\ x > y

Lt(x, y) == ~IsNaN(x) /\ ~IsNaN(y) /\ x < y

FAbs(x) == IF IsNaN(x) THEN NaN ELSE IF x < 0 THEN -x ELSE x

FAdd(x, y) == IF IsNaN(x) \/ IsNaN(y) THEN NaN ELSE x + y

FSub(x, y) == IF IsNaN(x) \/ IsNaN(y) THEN NaN ELSE x - y

\* Python's built-in min(a, b) and max(a, b): the first argument unless the
\* second compares smaller (larger)
PyMin(a, b) == IF Lt(b, a) THEN b ELSE a

PyMax(a, b) == IF Gt(b, a) THEN b ELSE a

At0(s, t) == s[t + 1]

----------------------------------------------------------------------------
(* Exact rationals for the statistics *)

RECURSIVE GCD(_, _)
GCD(a, b) == IF b = 0 THEN a ELSE GCD(b, a % b)

IAbs(n) == IF n < 0 THEN -n ELSE n

RNaN == <<0, 0>>

RIsNaN(q) == q[2] = 0

RNorm(n, d) ==
    IF d = 0 THEN RNaN
    ELSE LET g == GCD(IAbs(n), IAbs(d))
             s == IF d < 0 THEN -1 ELSE 1
         IN  <<(s * n) \div g, (s * d) \div g>>

RInt(n) == <<n, 1>>

\* a + b and a - b over the least common denominator
RAdd(a, b) ==
    IF RIsNaN(a) \/ RIsNaN(b) THEN RNaN
    ELSE LET g == GCD(a[2], b[2])
         IN  RNorm(a[1] * (b[2] \div g) + b[1] * (a[2] \div g),
                   a[2] * (b[2] \div g))

RSub(a, b) ==
    IF RIsNaN(a) \/ RIsNaN(b) THEN RNaN
    ELSE LET g == GCD(a[2], b[2])
         IN  RNorm(a[1] * (b[2] \div g) - b[1] * (a[2] \div g),
                   a[2] * (b[2] \div g))

\* a * b, common factors cancelled before multiplying
RMul(a, b) ==
    IF RIsNaN(a) \/ RIsNaN(b) THEN RNaN
    ELSE LET g == GCD(IAbs(a[1]), b[2])
             h == GCD(IAbs(b[1]), a[2])
         IN  RNorm((a[1] \div g) * (b[1] \div h),
                   (a[2] \div h) * (b[2] \div g))

\* a / b with 0/0 = nan; b is never a signed zero or an infinity here
RDiv(a, b) ==
    IF RIsNaN(a) \/ RIsNaN(b) THEN RNaN
    ELSE IF b[1] < 0 THEN RMul(a, <<-b[2], -b[1]>>)
    ELSE IF b[1] = 0 THEN RNaN
    ELSE RMul(a, <<b[2], b[1]>>)

RLt(a, b) ==
    /\ ~RIsNaN(a)
    /\ ~RIsNaN(b)
    /\ LET g == GCD(a[2], b[2])
       IN  a[1] * (b[2] \div g) < b[1] * (a[2] \div g)

RGt(a, b) == RLt(b, a)

\* The sum of entries lo..hi of a series, by halves
RECURSIVE RSumTo(_, _, _)
RSumTo(s, lo, hi) ==
    IF lo > hi THEN RInt(0)
    ELSE IF lo = hi THEN s[lo]
    ELSE LET mid == (lo + hi) \div 2
         IN  RAdd(RSumTo(s, lo, mid), RSumTo(s, mid + 1, hi))

RSum(s) == RSumTo(s, 1, Len(s))

\* Series.mean(): nan for an empty series
RMean(s) == IF s = <<>> THEN RNaN ELSE RDiv(RSum(s), RInt(Len(s)))

\* The sum of the squared deviations from m
RSumSqDev(s, m) ==
    RSum([k \in 1..Len(s) |-> LET d == RSub(s[k], m) IN RMul(d, d)])

\* The square of Series.std() (ddof = 1): nan for fewer than two values
RVar(s) ==
    IF Len(s) < 2 THEN RNaN
    ELSE LET m == RMean(s)
         IN  RDiv(RSumSqDev(s, m), RInt(Len(s) - 1))

----------------------------------------------------------------------------
(* run_asymmetry_strategy: signals, sizing, one pass of the loop body *)

MaxHold == 4

SizeFloor == 50

SizeCap == 200

\* long_signal = (fast_skew_20w > threshold) & (fast_alpha > 0)
LongSignal(row, thr) ==
    Gt(row.fast_skew_20w, thr) /\ Gt(row.fast_alpha, 0)

\* short_signal = (price_skew_20w > threshold)
\*                & (pricing_alpha > 0.5 * pricing_std_20w)
ShortSignal(row, thr) ==
    /\ Gt(row.price_skew_20w, thr)
    /\ ~IsNaN(row.pricing_alpha)
    /\ ~IsNaN(row.pricing_std_20w)
    /\ 2 * row.pricing_alpha > row.pricing_std_20w

\* A sizing rule that subtracts the distance of the index from 1
PositionSizingMinus(ai_val) ==
    PyMax(SizeFloor, PyMin(SizeCap, FSub(100, FAbs(FSub(ai_val, 100)))))

\* The sizing rule without its upper clamp
PositionSizingUncapped(ai_val) ==
    PyMax(SizeFloor, FAdd(100, FAbs(FSub(ai_val, 100))))

\* ps = max(0.5, min(2.0, 1.0 + abs(ai_val - 1.0)))
PositionSizing(ai_val) ==
    PyMax(SizeFloor, PyMin(SizeCap, FAdd(100, FAbs(FSub(ai_val, 100)))))

Sign(x) == IF x > 0 THEN 1 ELSE IF x < 0 THEN -1 ELSE 0

\* Signals read at the bar being filled instead of the bar before it
LaggedSignalNoLag(sig, i) == IF i >= 2 THEN At0(sig, i) ELSE FALSE

\* The lagged signals of iteration i: bar i-1, and False at i = 1
LaggedSignal(sig, i) == IF i >= 2 THEN At0(sig, i - 1) ELSE FALSE

\* The bar whose Asymmetry Index sizes the position of iteration i
SizingBar(i) == i - 1

\* A conflict policy that keeps the position held instead of going flat
ConflictKeepsPosition(prev_pos) == prev_pos

\* elif sig_long and sig_short: new_pos = 0.0
ConflictPosition(prev_pos) == 0

\* An update without the exits on signal loss
NewPositionNoExit(i, ls, ss, ai, prev_pos) ==
    LET sig_long  == LaggedSignal(ls, i)
        sig_short == LaggedSignal(ss, i)
        ps        == PositionSizing(At0(ai, SizingBar(i)))
    IN  IF sig_long /\ ~sig_short THEN ps
        ELSE IF sig_short /\ ~sig_long THEN -ps
        ELSE IF sig_long /\ sig_short THEN ConflictPosition(prev_pos)
        ELSE prev_pos

\* new_pos of iteration i when the holding period has not run out
NewPosition(i, ls, ss, ai, prev_pos) ==
    LET sig_long  == LaggedSignal(ls, i)
        sig_short == LaggedSignal(ss, i)
        ps        == PositionSizing(At0(ai, SizingBar(i)))
    IN  IF sig_long /\ ~sig_short THEN ps
        ELSE IF sig_short /\ ~sig_long THEN -ps
        ELSE IF sig_long /\ sig_short THEN ConflictPosition(prev_pos)
        ELSE IF prev_pos > 0 /\ ~At0(ls, i - 1) THEN 0
        ELSE IF prev_pos < 0 /\ ~At0(ss, i - 1) THEN 0
        ELSE prev_pos

\* A counter that keeps counting through a change of sign
NewHoldNoReset(new_pos, prev_pos, prev_hold) ==
    IF new_pos # 0 THEN prev_hold + 1 ELSE 0

\* Iteration i reaches "new_pos = prev_pos  # Hold existing position"
HoldBranch(i, ls, ss, prev_pos, prev_hold) ==
    /\ ~(prev_hold >= MaxHold)
    /\ ~LaggedSignal(ls, i)
    /\ ~LaggedSignal(ss, i)
    /\ ~(prev_pos > 0 /\ ~At0(ls, i - 1))
    /\ ~(prev_pos < 0 /\ ~At0(ss, i - 1))

\* hold_counter.iloc[i] after new_pos is known
NewHold(new_pos, prev_pos, prev_hold) ==
    IF new_pos # 0 /\ Sign(new_pos) = Sign(prev_pos) THEN prev_hold + 1
    ELSE IF new_pos # 0 THEN 1
    ELSE 0

\* A max-holding-period test that is one bar late
ForcedExitLate(prev_hold) == prev_hold > MaxHold

\* Whether iteration i takes the max-holding-period exit
ForcedExit(prev_hold) == prev_hold >= MaxHold

\* One iteration of "for i in range(1, len(df))": what it stores at bar i
LoopBody(i, ls, ss, ai, pos, hold, tc) ==
    LET prev_pos  == At0(pos, i - 1)
        prev_hold == At0(hold, i - 1)
    IN  IF ForcedExit(prev_hold)
        THEN [position      |-> 0,
              position_size |-> 0,
              hold_counter  |-> 0,
              trade_count   |-> IF prev_pos # 0 THEN tc + 1 ELSE tc]
        ELSE LET new_pos == NewPosition(i, ls, ss, ai, prev_pos)
             IN  [position      |-> new_pos,
                  position_size |-> IAbs(new_pos),
                  hold_counter  |-> NewHold(new_pos, prev_pos, prev_hold),
                  trade_count   |-> IF new_pos # 0 /\ prev_pos = 0
                                    THEN tc + 1 ELSE tc]

----------------------------------------------------------------------------
(* run_asymmetry_strategy: the performance metrics of a finished run *)

PeriodsPerYear == 52

\* position.shift(1): nan at bar 0, the previous bar's position after it
ShiftedPosition(pos, t) == IF t = 0 THEN NaN ELSE At0(pos, t - 1)

\* Entry t of position.shift(1) * df['weekly_return'], after fillna(0)
StrategyReturn(pos, wr, t) ==
    LET p == ShiftedPosition(pos, t)
    IN  IF IsNaN(p) \/ IsNaN(At0(wr, t)) THEN RInt(0)
        ELSE RNorm(p * At0(wr, t), 10000)

\* strategy_returns = (position.shift(1) * df['weekly_return']).fillna(0),
\* bars 0..n-1
RECURSIVE StrategyReturnsTo(_, _, _)
StrategyReturnsTo(pos, wr, n) ==
    IF n = 0 THEN <<>>
    ELSE Append(StrategyReturnsTo(pos, wr, n - 1),
                StrategyReturn(pos, wr, n - 1))

StrategyReturns(pos, wr) == StrategyReturnsTo(pos, wr, Len(pos))

\* (1 + strategy_returns).cumprod(), entries 1..k
RECURSIVE CumProd(_, _)
CumProd(sr, k) ==
    IF k = 0 THEN <<>>
    ELSE LET before == CumProd(sr, k - 1)
             last   == IF k = 1 THEN RInt(1) ELSE before[k - 1]
         IN  Append(before, RMul(last, RAdd(RInt(1), sr[k])))

RMax2(a, b) == IF RLt(a, b) THEN b ELSE a

RMin2(a, b) == IF RLt(b, a) THEN b ELSE a

\* Series.cummax(), entries 1..k
RECURSIVE CumMax(_, _)
CumMax(c, k) ==
    IF k = 0 THEN <<>>
    ELSE LET before == CumMax(c, k - 1)
         IN  Append(before,
                    IF k = 1 THEN c[1] ELSE RMax2(before[k - 1], c[k]))

\* Series.min() over entries lo..hi, by halves; nan for an empty series
RECURSIVE RMinTo(_, _, _)
RMinTo(s, lo, hi) ==
    IF lo > hi THEN RNaN
    ELSE IF lo = hi THEN s[lo]
    ELSE LET mid == (lo + hi) \div 2
         IN  RMin2(RMinTo(s, lo, mid), RMinTo(s, mid + 1, hi))

\* (c / m - 1).min()
DrawdownMin(c, m) ==
    LET dd == [k \in 1..Len(c) |-> RSub(RDiv(c[k], m[k]), RInt(1))]
    IN  RMinTo(dd, 1, Len(dd))

\* cum_return = (1 + strategy_returns).prod() - 1
CumReturn(sr) ==
    LET c == CumProd(sr, Len(sr))
    IN  RSub(IF c = <<>> THEN RInt(1) ELSE c[Len(c)], RInt(1))

\* max_dd = ((cum_returns_series / cum_returns_series.cummax()) - 1).min()
MaxDrawdown(sr) ==
    LET c  == CumProd(sr, Len(sr))
        m  == CumMax(c, Len(c))
    IN  DrawdownMin(c, m)

\* A Sharpe-like ratio (num / sqrt(den2)) * sqrt(PeriodsPerYear), kept as
\* its exact parts; eps marks the 1e-10 denominator, whose square is not
\* representable
ZeroRatio == [num |-> RInt(0), den2 |-> RInt(1), eps |-> FALSE]

MakeRatio(mean, var, eps) == [num |-> mean, den2 |-> var, eps |-> eps]

\* A test that lets a zero or undefined deviation through
StdNotNegative(var) == ~RLt(var, RInt(0))

\* "weekly_std > 0" on the squared deviation: False for nan and for 0
StdPositive(var) == RGt(var, RInt(0))

\* sharpe = (weekly_mean / weekly_std) * sqrt(52) if weekly_std > 0 else 0.0
Sharpe(sr) ==
    LET weekly_mean == RMean(sr)
        weekly_var  == RVar(sr)
    IN  IF StdPositive(weekly_var) THEN MakeRatio(weekly_mean, weekly_var, FALSE)
        ELSE ZeroRatio

\* downside = strategy_returns[strategy_returns < 0]
Downside(sr) == SelectSeq(sr, LAMBDA r : RLt(r, RInt(0)))

\* downside_std = downside.std() if len(downside) > 0 else 1e-10
\* sortino = (weekly_mean / downside_std) * sqrt(52) if downside_std > 0
\*           else 0.0
Sortino(sr) ==
    LET downside == Downside(sr)
        downside_var == RVar(downside)
    IN  IF Len(downside) > 0
        THEN IF StdPositive(downside_var)
             THEN MakeRatio(RMean(sr), downside_var, FALSE)
             ELSE ZeroRatio
        ELSE MakeRatio(RMean(sr), RInt(0), TRUE)

\* pos_changes = position.diff().abs(); n_trades = (pos_changes > 0).sum() // 2
NTrades(pos) ==
    Cardinality({k \in 2..Len(pos) : pos[k] # pos[k - 1]}) \div 2

\* The dict run_asymmetry_strategy returns ('return' is cum_return * 100)
Metrics(pos, wr) ==
    LET sr == StrategyReturns(pos, wr)
    IN  [return           |-> RMul(CumReturn(sr), RInt(100)),
         sharpe           |-> Sharpe(sr),
         sortino          |-> Sortino(sr),
         mdd              |-> RMul(MaxDrawdown(sr), RInt(100)),
         trades           |-> NTrades(pos),
         strategy_returns |-> sr]

NoMetrics ==
    [return |-> RNaN, sharpe |-> ZeroRatio, sortino |-> ZeroRatio,
     mdd |-> RNaN, trades |-> 0, strategy_returns |-> <<>>]

\* The value of a ratio is exactly 0: a zero numerator over a positive,
\* finite denominator
RatioIsZero(x) ==
    /\ x.num = RInt(0)
    /\ x.eps \/ RGt(x.den2, RInt(0))

----------------------------------------------------------------------------
(* The run of run_asymmetry_strategy over a table that arrives bar by bar *)

Thresholds == {50, 75, 100, 125}

\* def run_asymmetry_strategy(data, threshold=0.75, verbose=False)
DefaultThreshold == 75

Bar(fs, fa, psk, pa, pstd, ai, wr) ==
    [fast_skew_20w |-> fs, fast_alpha |-> fa, price_skew_20w |-> psk,
     pricing_alpha |-> pa, pricing_std_20w |-> pstd, ai_20w |-> ai,
     weekly_return |-> wr]

\* data.copy() and the Series set up before the loop, for a table whose
\* first row is row
StartRun(thr, row) ==
    /\ threshold = thr
    /\ long_signal = <<LongSignal(row, thr)>>
    /\ short_signal = <<ShortSignal(row, thr)>>
    /\ ai_20w = <<row.ai_20w>>
    /\ weekly_return = <<row.weekly_return>>
    /\ position = <<0>>
    /\ position_size = <<0>>
    /\ hold_counter = <<0>>
    /\ trade_count = 0
    /\ metrics = NoMetrics
    /\ pc = "loop"

\* Iteration i of the loop, over a table whose row i is row
Iterate(row) ==
    LET i  == Len(position)
        ls == Append(long_signal, LongSignal(row, threshold))
        ss == Append(short_signal, ShortSignal(row, threshold))
        ai == Append(ai_20w, row.ai_20w)
        r  == LoopBody(i, ls, ss, ai, position, hold_counter, trade_count)
    IN  /\ long_signal' = ls
        /\ short_signal' = ss
        /\ ai_20w' = ai
        /\ weekly_return' = Append(weekly_return, row.weekly_return)
        /\ position' = Append(position, r.position)
        /\ position_size' = Append(position_size, r.position_size)
        /\ hold_counter' = Append(hold_counter, r.hold_counter)
        /\ trade_count' = r.trade_count
        /\ UNCHANGED <<threshold, metrics>>

\* The same call on a second table: its columns and Series
NoTwin ==
    [long_signal |-> <<>>, short_signal |-> <<>>, ai_20w |-> <<>>,
     weekly_return |-> <<>>, position |-> <<>>, hold_counter |-> <<>>,
     trade_count |-> 0, strategy_returns |-> <<>>]

TwinStart(thr, row) ==
    [long_signal |-> <<LongSignal(row, thr)>>,
     short_signal |-> <<ShortSignal(row, thr)>>,
     ai_20w |-> <<row.ai_20w>>,
     weekly_return |-> <<row.weekly_return>>,
     position |-> <<0>>, hold_counter |-> <<0>>,
     trade_count |-> 0, strategy_returns |-> <<>>]

TwinIterate(w, thr, row) ==
    LET i  == Len(w.position)
        ls == Append(w.long_signal, LongSignal(row, thr))
        ss == Append(w.short_signal, ShortSignal(row, thr))
        ai == Append(w.ai_20w, row.ai_20w)
        r  == LoopBody(i, ls, ss, ai, w.position, w.hold_counter,
                       w.trade_count)
    IN  [long_signal |-> ls, short_signal |-> ss, ai_20w |-> ai,
         weekly_return |-> Append(w.weekly_return, row.weekly_return),
         position |-> Append(w.position, r.position),
         hold_counter |-> Append(w.hold_counter, r.hold_counter),
         trade_count |-> r.trade_count,
         strategy_returns |-> <<>>]

\* The loop is over (i = len(df)): compute and return the metrics
Return ==
    /\ metrics' = Metrics(position, weekly_return)
    /\ UNCHANGED <<threshold, long_signal, short_signal, ai_20w,
                   weekly_return, position, position_size, hold_counter,
                   trade_count>>

\* The other script has not started
EvtIdle ==
    /\ exceedance_indices = <<>>
    /\ cluster_labels = <<>>
    /\ cluster_idx = <<>>
    /\ n_clusters = 0
    /\ theta = RNaN
    /\ defined = {}
    /\ gpd_report = "none"
    /\ evt_pc = "idle"

\* run_asymmetry_strategy has not been called
RunIdle ==
    /\ threshold = DefaultThreshold
    /\ long_signal = <<>>
    /\ short_signal = <<>>
    /\ ai_20w = <<>>
    /\ weekly_return = <<>>
    /\ position = <<>>
    /\ position_size = <<>>
    /\ hold_counter = <<>>
    /\ trade_count = 0
    /\ metrics = NoMetrics
    /\ pc = "idle"

\* Section 2 of recompute_tables.py has not run
SignalIdle ==
    /\ daily_returns = <<>>
    /\ tail_alpha = <<>>
    /\ signal_pc = "idle"

\* No subsample loop is running
SweepIdle ==
    /\ subsamples = <<>>
    /\ subsample_results = <<>>
    /\ engine_calls = 0

----------------------------------------------------------------------------
(* Spec: the position loop of run_asymmetry_strategy, over every table of  *)
(* up to MaxBars rows drawn from BarValues and every threshold of the      *)
(* sensitivity sweep                                                       *)

MaxBars == 7

\* Rows with each combination of the two signals at thresholds 0.50 and
\* 0.75 (a skewness of exactly 0.75 does not exceed 0.75, a missing one
\* exceeds nothing).  A long entry is sized by an Asymmetry Index of 1.0 or
\* 3.0 (sizes 1.0 and 2.0), a short entry by one of 0.5 (size 1.5)
BarValues ==
    { Bar(80, 1, NaN, 2, 2, ai, 0) : ai \in {100, 300} } \cup
    { Bar(75, 1, 80, 2, 2, 50, 0),
      Bar(80, 1, 80, 2, 2, 100, 0),
      Bar(75, 1, NaN, 2, 2, 100, 0) }

Init ==
    /\ \E thr \in Thresholds, row \in BarValues : StartRun(thr, row)
    /\ twin = NoTwin
    /\ SweepIdle
    /\ SignalIdle
    /\ EvtIdle

Step ==
    /\ pc = "loop"
    /\ Len(position) < MaxBars
    /\ \E row \in BarValues : Iterate(row)
    /\ pc' = "loop"
    /\ UNCHANGED <<twin, sweepVars, evtVars, signalVars>>

Next == Step

Spec == Init /\ [][Next]_vars

----------------------------------------------------------------------------
(* SpecRun: whole runs of run_asymmetry_strategy, the metrics included,    *)
(* over tables of up to MaxRunBars rows whose weekly returns vary          *)

MaxRunBars == 5

RunBarValues ==
    { Bar(fs, 1, psk, 2, 2, 100, wr) :
        fs \in {75, 80}, psk \in {NaN, 80}, wr \in {-5, 0} } \
    { Bar(80, 1, 80, 2, 2, 100, wr) : wr \in {-5, 0} }

RunInit ==
    /\ \E row \in RunBarValues : StartRun(DefaultThreshold, row)
    /\ twin = NoTwin
    /\ SweepIdle
    /\ SignalIdle
    /\ EvtIdle

RunStep ==
    /\ pc = "loop"
    /\ Len(position) < MaxRunBars
    /\ \E row \in RunBarValues : Iterate(row)
    /\ pc' = "loop"
    /\ UNCHANGED <<twin, sweepVars, evtVars, signalVars>>

RunFinish ==
    /\ pc = "loop"
    /\ Return
    /\ pc' = "done"
    /\ UNCHANGED <<twin, sweepVars, evtVars, signalVars>>

RunNext == RunStep \/ RunFinish

SpecRun == RunInit /\ [][RunNext]_vars

----------------------------------------------------------------------------
(* SpecLag: two calls of run_asymmetry_strategy with the same threshold on *)
(* two tables of up to MaxLagBars rows, iterated side by side.  The tables *)
(* are followed while they agree, and for one more iteration after the     *)
(* first bar at which they differ.                                         *)

MaxLagBars == 4

LagBarValues ==
    { Bar(80, 1, NaN, 2, 2, 100, -5),
      Bar(80, 1, NaN, 2, 2, 300, 0),
      Bar(75, 1, 80, 2, 2, 50, 5),
      Bar(80, 1, 80, 2, 2, 100, -5),
      Bar(75, 1, NaN, 2, 2, 100, 5) }

\* The two tables hold the same signal, skewness, std and Asymmetry Index
\* values at bar u
SameInputsAt(u) ==
    /\ At0(long_signal, u) = At0(twin.long_signal, u)
    /\ At0(short_signal, u) = At0(twin.short_signal, u)
    /\ At0(ai_20w, u) = At0(twin.ai_20w, u)

\* ... at every bar strictly before t
AgreeBefore(t) == \A u \in 0..(t - 1) : SameInputsAt(u)

LagInit ==
    /\ \E rowA \in LagBarValues, rowB \in LagBarValues :
          /\ StartRun(DefaultThreshold, rowA)
          /\ twin = TwinStart(DefaultThreshold, rowB)
    /\ SweepIdle
    /\ SignalIdle
    /\ EvtIdle

LagStep ==
    /\ pc = "loop"
    /\ Len(position) < MaxLagBars
    /\ AgreeBefore(Len(position) - 1)
    /\ \E rowA \in LagBarValues, rowB \in LagBarValues :
          /\ SameInputsAt(Len(position) - 1) \/ rowA = rowB
          /\ Iterate(rowA)
          /\ twin' = TwinIterate(twin, threshold, rowB)
    /\ pc' = "loop"
    /\ UNCHANGED <<sweepVars, evtVars, signalVars>>

LagFinish ==
    /\ pc = "loop"
    /\ Return
    /\ twin' = [twin EXCEPT !.strategy_returns =
                   StrategyReturns(twin.position, twin.weekly_return)]
    /\ pc' = "done"
    /\ UNCHANGED <<sweepVars, evtVars, signalVars>>

LagNext == LagStep \/ LagFinish

SpecLag == LagInit /\ [][LagNext]_vars

----------------------------------------------------------------------------
(* phase0_data_verification.py, section 4: runs declustering and the       *)
(* extremal index                                                          *)

RunLength == 5

\* gap = exceedance_indices[i] - exceedance_indices[i-1], entries from 1
GapToFirst(idx, k) == idx[k] - idx[1]

Gap(idx, k) == idx[k] - idx[k - 1]

NewClusterStrict(gap) == gap > RunLength

\* if gap >= 5:  # New cluster
NewCluster(gap) == gap >= RunLength

\* cluster_labels after the entries 1..k of a non-empty index array
RECURSIVE ClusterLabels(_, _)
ClusterLabels(idx, k) ==
    IF k = 1 THEN <<0>>
    ELSE LET before          == ClusterLabels(idx, k - 1)
             current_cluster == before[k - 1]
         IN  Append(before,
                    IF NewCluster(Gap(idx, k)) THEN current_cluster + 1
                    ELSE current_cluster)

\* n_clusters = current_cluster + 1
NClusters(labels) == labels[Len(labels)] + 1

\* cluster_idx = [exceedance_indices[j] for j, label in
\*                enumerate(cluster_labels) if label == c]
ClusterIdx(idx, labels, c) ==
    LET js == SelectSeq([j \in 1..Len(idx) |-> j], LAMBDA j : labels[j] = c)
    IN  [m \in 1..Len(js) |-> idx[js[m]]]

\* The bars over which each cluster's maximum is taken, cluster by cluster
AllClusterIdx(idx, labels) ==
    [c \in 1..NClusters(labels) |-> ClusterIdx(idx, labels, c - 1)]

ExtremalIndexInverted(clusters, raw_exceedances) ==
    RNorm(raw_exceedances, clusters)

\* theta = n_clusters / raw_exceedances
ExtremalIndex(clusters, raw_exceedances) == RNorm(clusters, raw_exceedances)

\* raw_exceedances = exceedances_mask.sum()
RawExceedances == Len(exceedance_indices)

\* Names bound by sections 1 to 3 and the head of section 4
NamesBefore4 ==
    {"sample_claimed", "results", "tail_alpha", "threshold_95",
     "exceedances_mask", "raw_exceedances", "exceedance_indices"}

NamesOfDeclustering ==
    {"cluster_labels", "n_clusters", "cluster_maxima", "theta", "interp",
     "theta_ci_low", "theta_ci_high"}

NamesOfFit == {"shape", "scale", "ks_pval"}

\* Names the summary f-string and the results file read
NamesOfSummary ==
    {"sample_claimed", "results", "raw_exceedances", "n_clusters", "theta",
     "theta_ci_low", "theta_ci_high", "interp", "shape", "scale", "ks_pval"}

\* if len(cluster_maxima) > 10:
MinClusterMaxima == 10

EnoughClusterMaxima(n) == n > MinClusterMaxima

\* Section 4, if len(exceedance_indices) > 0
Decluster ==
    /\ evt_pc = "s4"
    /\ Len(exceedance_indices) > 0
    /\ LET labels == ClusterLabels(exceedance_indices,
                                   Len(exceedance_indices))
       IN  /\ cluster_labels' = labels
           /\ n_clusters' = NClusters(labels)
           /\ cluster_idx' = AllClusterIdx(exceedance_indices, labels)
           /\ theta' = ExtremalIndex(NClusters(labels), RawExceedances)
    /\ defined' = defined \cup NamesOfDeclustering
    /\ evt_pc' = "s5"
    /\ UNCHANGED <<exceedance_indices, gpd_report>>
    /\ UNCHANGED <<runVars, twin, sweepVars, signalVars>>

\* Section 4, else: "No exceedances found!"
NoExceedances ==
    /\ evt_pc = "s4"
    /\ Len(exceedance_indices) = 0
    /\ n_clusters' = 0
    /\ theta' = RNaN
    /\ defined' = defined \cup {"n_clusters", "theta"}
    /\ evt_pc' = "s5"
    /\ UNCHANGED <<exceedance_indices, cluster_labels, cluster_idx,
                   gpd_report>>
    /\ UNCHANGED <<runVars, twin, sweepVars, signalVars>>

\* Section 5, the fit
GPDFit ==
    /\ evt_pc = "s5"
    /\ "cluster_maxima" \in defined
    /\ EnoughClusterMaxima(Len(cluster_idx))
    /\ gpd_report' = "fitted"
    /\ defined' = defined \cup NamesOfFit
    /\ evt_pc' = "s6"
    /\ UNCHANGED <<exceedance_indices, cluster_labels, cluster_idx,
                   n_clusters, theta>>
    /\ UNCHANGED <<runVars, twin, sweepVars, signalVars>>

\* Section 5, else: "Insufficient cluster maxima for GPD fit"
GPDSkip ==
    /\ evt_pc = "s5"
    /\ "cluster_maxima" \in defined
    /\ ~EnoughClusterMaxima(Len(cluster_idx))
    /\ gpd_report' = "insufficient"
    /\ evt_pc' = "s6"
    /\ UNCHANGED <<exceedance_indices, cluster_labels, cluster_idx,
                   n_clusters, theta, defined>>
    /\ UNCHANGED <<runVars, twin, sweepVars, signalVars>>

\* Section 5 reads cluster_maxima, which the else branch of section 4 never
\* binds: NameError
GPDNameError ==
    /\ evt_pc = "s5"
    /\ "cluster_maxima" \notin defined
    /\ evt_pc' = "crashed"
    /\ UNCHANGED <<exceedance_indices, cluster_labels, cluster_idx,
                   n_clusters, theta, defined, gpd_report>>
    /\ UNCHANGED <<runVars, twin, sweepVars, signalVars>>

\* Section 6 prints the summary
Summary ==
    /\ evt_pc = "s6"
    /\ NamesOfSummary \subseteq defined
    /\ evt_pc' = "save"
    /\ UNCHANGED <<exceedance_indices, cluster_labels, cluster_idx,
                   n_clusters, theta, defined, gpd_report>>
    /\ UNCHANGED <<runVars, twin, sweepVars, signalVars>>

\* The summary f-string reads a name that is not bound: NameError
SummaryNameError ==
    /\ evt_pc = "s6"
    /\ ~(NamesOfSummary \subseteq defined)
    /\ evt_pc' = "crashed"
    /\ UNCHANGED <<exceedance_indices, cluster_labels, cluster_idx,
                   n_clusters, theta, defined, gpd_report>>
    /\ UNCHANGED <<runVars, twin, sweepVars, signalVars>>

\* The results file is written
SaveResults ==
    /\ evt_pc = "save"
    /\ NamesOfSummary \subseteq defined
    /\ evt_pc' = "done"
    /\ UNCHANGED <<exceedance_indices, cluster_labels, cluster_idx,
                   n_clusters, theta, defined, gpd_report>>
    /\ UNCHANGED <<runVars, twin, sweepVars, signalVars>>

----------------------------------------------------------------------------
(* SpecEVT: sections 4 to 6 of the phase-0 script over exceedance index    *)
(* arrays: short ones with varied gaps, and long ones with gaps of 1 and 5 *)

MaxExceed == 6

MaxLongExceed == 12

GapValues == {1, 4, 5, 9, 18}

LongGapValues == {1, 5}

FirstValues == {0, 10}

\* The ascending array that starts at first and has the gaps g
RECURSIVE FromGaps(_, _)
FromGaps(first, g) ==
    IF g = <<>> THEN <<first>>
    ELSE LET before == FromGaps(first, SubSeq(g, 1, Len(g) - 1))
         IN  Append(before, before[Len(before)] + g[Len(g)])

ExceedanceInputs ==
    {<<>>}
    \cup { FromGaps(f, g) :
             f \in FirstValues,
             g \in UNION { [1..k -> GapValues] : k \in 0..(MaxExceed - 1) } }
    \cup { FromGaps(0, g) :
             g \in UNION { [1..k -> LongGapValues] :
                             k \in MinClusterMaxima..(MaxLongExceed - 1) } }

EvtInit ==
    /\ exceedance_indices \in ExceedanceInputs
    /\ cluster_labels = <<>>
    /\ cluster_idx = <<>>
    /\ n_clusters = 0
    /\ theta = RNaN
    /\ defined = NamesBefore4
    /\ gpd_report = "none"
    /\ evt_pc = "s4"
    /\ SweepIdle
    /\ SignalIdle
    /\ twin = NoTwin
    /\ RunIdle

EvtNext ==
    \/ Decluster
    \/ NoExceedances
    \/ GPDFit
    \/ GPDSkip
    \/ GPDNameError
    \/ Summary
    \/ SummaryNameError
    \/ SaveResults

SpecEVT == EvtInit /\ [][EvtNext]_vars

----------------------------------------------------------------------------
(* recompute_tables.py, section 7: the subsample stability loop *)

\* The state of the loop of run_asymmetry_strategy after iterations 1..i
\* over whole columns
RECURSIVE RunLoop(_, _, _, _)
RunLoop(ls, ss, ai, i) ==
    IF i = 0
    THEN [position |-> <<0>>, hold_counter |-> <<0>>, trade_count |-> 0]
    ELSE LET b == RunLoop(ls, ss, ai, i - 1)
             r == LoopBody(i, ls, ss, ai, b.position, b.hold_counter,
                           b.trade_count)
         IN  [position     |-> Append(b.position, r.position),
              hold_counter |-> Append(b.hold_counter, r.hold_counter),
              trade_count  |-> r.trade_count]

\* run_asymmetry_strategy(table, threshold=thr) on a non-empty table
RunStrategy(table, thr) ==
    LET ls == [t \in 1..Len(table) |-> LongSignal(table[t], thr)]
        ss == [t \in 1..Len(table) |-> ShortSignal(table[t], thr)]
        ai == [t \in 1..Len(table) |-> table[t].ai_20w]
        wr == [t \in 1..Len(table) |-> table[t].weekly_return]
    IN  Metrics(RunLoop(ls, ss, ai, Len(table) - 1).position, wr)

\* result = run_asymmetry_strategy(subset, threshold=0.75)
SubsampleThreshold == 75

MinSubsampleBars == 25

EnoughBarsStrict(n) == n > MinSubsampleBars

\* if n >= 25:  # Need enough data
EnoughBars(n) == n >= MinSubsampleBars

\* The table of a subsample: n rows with the same fast skewness, and one
\* non-zero weekly return, at bar 3
SubsetTable(d) ==
    [t \in 1..d.n |->
        Bar(d.fast_skew, 1, NaN, 2, 2, 100,
            IF t = 4 THEN d.weekly_return ELSE 0)]

\* The subsample the loop is at
NextSubsample == subsamples[Len(subsample_results) + 1]

\* One iteration of "for name, subset in subsamples.items()", n >= 25
SubsampleRun ==
    /\ Len(subsample_results) < Len(subsamples)
    /\ LET subset == SubsetTable(NextSubsample)
           n      == Len(subset)
       IN  /\ EnoughBars(n)
           /\ subsample_results' =
                 Append(subsample_results,
                        [n         |-> n,
                         strat_ret |->
                            RunStrategy(subset, SubsampleThreshold).return])
           /\ engine_calls' = engine_calls + 1
    /\ UNCHANGED <<subsamples, runVars, twin, evtVars, signalVars>>

\* One iteration of the same loop, else branch: strat_ret = np.nan
SubsampleSkip ==
    /\ Len(subsample_results) < Len(subsamples)
    /\ LET subset == SubsetTable(NextSubsample)
           n      == Len(subset)
       IN  /\ ~EnoughBars(n)
           /\ subsample_results' =
                 Append(subsample_results, [n |-> n, strat_ret |-> RNaN])
           /\ engine_calls' = engine_calls
    /\ UNCHANGED <<subsamples, runVars, twin, evtVars, signalVars>>

----------------------------------------------------------------------------
(* SpecSweep: the subsample loop over every list of MaxSubsamples          *)
(* subsamples of 24, 25 or 26 bars                                         *)

MaxSubsamples == 2

SubsampleValues ==
    [n : {24, 25, 26}, fast_skew : {60, 80}, weekly_return : {-5, 5}]

SweepInit ==
    /\ subsamples \in [1..MaxSubsamples -> SubsampleValues]
    /\ subsample_results = <<>>
    /\ engine_calls = 0
    /\ RunIdle
    /\ twin = NoTwin
    /\ EvtIdle
    /\ SignalIdle

SweepNext == SubsampleRun \/ SubsampleSkip

SpecSweep == SweepInit /\ [][SweepNext]_vars

----------------------------------------------------------------------------
(* SpecTrades: whole runs of run_asymmetry_strategy over tables of up to   *)
(* MaxTradeBars rows whose Asymmetry Index varies from bar to bar and may  *)
(* be undefined                                                            *)

MaxTradeBars == 5

\* A long signal sized by an Asymmetry Index of 1.0, 1.3 or nan, a short
\* one sized by 0.5, or no signal
TradeBarValues ==
    { Bar(80, 1, NaN, 2, 2, ai, 0) : ai \in {100, 130, NaN} } \cup
    { Bar(75, 1, 80, 2, 2, 50, 0),
      Bar(75, 1, NaN, 2, 2, 100, 0) }

TradeInit ==
    /\ \E row \in TradeBarValues : StartRun(DefaultThreshold, row)
    /\ twin = NoTwin
    /\ SweepIdle
    /\ SignalIdle
    /\ EvtIdle

TradeStep ==
    /\ pc = "loop"
    /\ Len(position) < MaxTradeBars
    /\ \E row \in TradeBarValues : Iterate(row)
    /\ pc' = "loop"
    /\ UNCHANGED <<twin, sweepVars, evtVars, signalVars>>

TradeFinish ==
    /\ pc = "loop"
    /\ Return
    /\ pc' = "done"
    /\ UNCHANGED <<twin, sweepVars, evtVars, signalVars>>

TradeNext == TradeStep \/ TradeFinish

SpecTrades == TradeInit /\ [][TradeNext]_vars

----------------------------------------------------------------------------
(* recompute_tables.py, section 2: the daily tail alpha.  Daily returns    *)
(* are integers in units of 0.01 %; bar 0 of df['returns'] is the nan that *)
(* pct_change() leaves there.                                              *)

\* rolling(252, min_periods=60)
QuantileWindow == 252

QuantileMinPeriods == 60

\* The numbers among |returns| in the window that ends at bar t
WindowValues(ret, t) ==
    LET first == IF t - QuantileWindow + 1 > 0 THEN t - QuantileWindow + 1
                 ELSE 0
        bars  == SelectSeq([k \in 1..(t - first + 1) |-> first + k - 1],
                           LAMBDA u : ~IsNaN(At0(ret, u)))
    IN  [k \in 1..Len(bars) |-> FAbs(At0(ret, bars[k]))]

\* Entry k, from 0, of the values in ascending order
OrderStat(vals, k) ==
    LET range == {vals[j] : j \in 1..Len(vals)}
        upto(x) == Cardinality({j \in 1..Len(vals) : vals[j] <= x})
    IN  CHOOSE x \in range :
            /\ upto(x) >= k + 1
            /\ \A y \in range : upto(y) >= k + 1 => x <= y

\* 20 times quantile(0.95) of the values, with linear interpolation
\* between the two nearest order statistics; nan below min_periods
Quantile95x20(vals) ==
    IF Len(vals) < QuantileMinPeriods THEN NaN
    ELSE LET h   == 19 * (Len(vals) - 1)
             lo  == h \div 20
             rem == h % 20
         IN  IF rem = 0 THEN 20 * OrderStat(vals, lo)
             ELSE 20 * OrderStat(vals, lo)
                  + rem * (OrderStat(vals, lo + 1) - OrderStat(vals, lo))

\* rolling_q95 at bar t, times 20
RollingQ95x20(ret, t) == Quantile95x20(WindowValues(ret, t))

\* np.where(returns.abs() > rolling_q95,
\*          np.sign(returns) * returns.abs(), 0.0) at bar t
TailAlpha(ret, t) ==
    IF Gt(IF IsNaN(At0(ret, t)) THEN NaN ELSE 20 * FAbs(At0(ret, t)),
          RollingQ95x20(ret, t))
    THEN Sign(At0(ret, t)) * FAbs(At0(ret, t))
    ELSE 0

\* df['tail_alpha'] = np.where(...)
ComputeTailAlpha ==
    /\ signal_pc = "tail"
    /\ tail_alpha' = [k \in 1..Len(daily_returns) |->
                         TailAlpha(daily_returns, k - 1)]
    /\ signal_pc' = "done"
    /\ UNCHANGED <<daily_returns, runVars, twin, sweepVars, evtVars>>

----------------------------------------------------------------------------
(* SpecSignal: the tail alpha of daily return columns of up to MaxDays     *)
(* bars, around the 60 observations the rolling quantile asks for          *)

MaxDays == 63

\* A column of n bars: returns of 0.05 %, 0.10 % and 0.15 % in turn, of
\* alternating sign, and one return of another size at bar spike_bar
DailyReturns(n, spike_bar, spike) ==
    [k \in 1..n |->
        LET t == k - 1
        IN  IF t = 0 THEN NaN
            ELSE IF t = spike_bar THEN spike
            ELSE (IF t % 2 = 0 THEN 1 ELSE -1) * (5 + 5 * (t % 3))]

DailyReturnsInputs ==
    { DailyReturns(n, b, m) :
        n \in 1..MaxDays, b \in {0, 30, 59, 60, 61, 62},
        m \in {-40, -16, 16, 40} }

SignalInit ==
    /\ daily_returns \in DailyReturnsInputs
    /\ tail_alpha = <<>>
    /\ signal_pc = "tail"
    /\ RunIdle
    /\ twin = NoTwin
    /\ SweepIdle
    /\ EvtIdle

SignalNext == ComputeTailAlpha

SpecSignal == SignalInit /\ [][SignalNext]_vars

----------------------------------------------------------------------------
(* Properties of the position loop *)

Bars == 0..(Len(position) - 1)

\* C1: at every bar the position is exactly 0 or has magnitude in
\* [0.5, 2.0], a positive position at bar t occurs only when at t-1 the
\* long signal is true and the short signal false, and a negative one only
\* when at t-1 the short signal is true and the long signal false.
C1_PositionBounded ==
    \A t \in Bars :
        LET p == At0(position, t)
        IN  /\ p = 0 \/ (50 <= IAbs(p) /\ IAbs(p) <= 200)
            /\ p > 0 => /\ t >= 1
                        /\ At0(long_signal, t - 1)
                        /\ ~At0(short_signal, t - 1)
            /\ p < 0 => /\ t >= 1
                        /\ At0(short_signal, t - 1)
                        /\ ~At0(long_signal, t - 1)

\* A long position of size 2.0 (an Asymmetry Index of 3.0, capped) and,
\* earlier in the same run, a short one
C1_Witness ==
    \E t \in Bars, u \in Bars :
        /\ At0(position, t) = 200
        /\ At0(ai_20w, t - 1) = 300
        /\ At0(position, u) < 0

\* C2: if the holding counter at bar t is 4 and t has a successor, then at
\* t+1 the position is 0 and the holding counter is 0, whatever the
\* signals and the Asymmetry Index at t are.
C2_ForcedExit ==
    \A t \in Bars :
        (t + 1 \in Bars /\ At0(hold_counter, t) = 4)
            => At0(position, t + 1) = 0 /\ At0(hold_counter, t + 1) = 0

\* The counter reached 4 at a bar whose long signal alone is true, and the
\* next bar exists
C2_Witness ==
    \E t \in Bars :
        /\ t + 1 \in Bars
        /\ At0(hold_counter, t) = 4
        /\ At0(long_signal, t) /\ ~At0(short_signal, t)
        /\ At0(ai_20w, t) = 300
        /\ threshold = 75

\* C3: at every bar t >= 1 for which both signals are true at t-1, the
\* position is exactly 0, also when a position was held at t-1.
C3_ConflictFlat ==
    \A t \in Bars :
        (t >= 1 /\ At0(long_signal, t - 1) /\ At0(short_signal, t - 1))
            => At0(position, t) = 0

\* Both signals true at t-1 while a position is held at t-1 and its
\* holding period has not run out
C3_Witness ==
    \E t \in Bars :
        /\ t >= 2
        /\ At0(long_signal, t - 1) /\ At0(short_signal, t - 1)
        /\ At0(position, t - 1) # 0
        /\ At0(hold_counter, t - 1) < 4
        /\ At0(position, t) = 0

----------------------------------------------------------------------------
(* Properties of two runs side by side *)

\* C4: if two tables agree on the signal, skewness, std and Asymmetry
\* Index values of every bar strictly before t, the positions at bars 0..t
\* are the same in both runs; the realized return at bar t >= 1 is the
\* position at t-1 times the period return at t, so it is the same in both
\* runs when the period return at t is.
C4_NoLookAhead ==
    /\ \A t \in Bars :
          AgreeBefore(t) =>
              \A u \in 0..t : At0(position, u) = At0(twin.position, u)
    /\ pc = "done" =>
          \A t \in Bars :
              /\ t >= 1 =>
                    At0(metrics.strategy_returns, t) =
                        RNorm(At0(position, t - 1) * At0(weekly_return, t),
                              10000)
              /\ (AgreeBefore(t)
                    /\ At0(weekly_return, t) = At0(twin.weekly_return, t))
                   => At0(metrics.strategy_returns, t) =
                          At0(twin.strategy_returns, t)

\* Two finished runs whose tables differ at their last bar t only, in the
\* signals, with a position open at t-1 and a non-zero return at t
C4_Witness ==
    /\ pc = "done"
    /\ \E t \in Bars :
          /\ t = Len(position) - 1
          /\ t >= 3
          /\ AgreeBefore(t)
          /\ At0(long_signal, t) # At0(twin.long_signal, t)
          /\ At0(position, t - 1) # 0
          /\ At0(position, t) # At0(position, t - 1)
          /\ At0(weekly_return, t) # 0

----------------------------------------------------------------------------
(* Properties of the declustering and of the phase-0 pipeline *)

Declustered == evt_pc \notin {"idle", "s4"} /\ RawExceedances > 0

Entries == 1..Len(exceedance_indices)

\* C5: a new cluster starts exactly when the gap to the previous
\* exceedance is >= 5, so two exceedances share a cluster exactly when
\* every gap between them is < 5, the clusters are numbered 0, 1, ... in
\* order, their number is 1 plus the number of gaps >= 5, and
\* [10, 11, 20, 21, 22, 40] gives {10, 11}, {20, 21, 22}, {40}.
C5_RunsDeclustering ==
    Declustered =>
        /\ Len(cluster_labels) = Len(exceedance_indices)
        /\ cluster_labels[1] = 0
        /\ \A k \in Entries \ {1} :
              cluster_labels[k] =
                  cluster_labels[k - 1]
                  + (IF exceedance_indices[k] - exceedance_indices[k - 1] >= 5
                     THEN 1 ELSE 0)
        /\ \A k \in Entries, l \in Entries :
              k < l =>
                  ((cluster_labels[k] = cluster_labels[l])
                     <=> \A m \in (k + 1)..l :
                            exceedance_indices[m]
                              - exceedance_indices[m - 1] < 5)
        /\ n_clusters =
              1 + Cardinality({k \in Entries \ {1} :
                     exceedance_indices[k] - exceedance_indices[k - 1] >= 5})
        /\ Len(cluster_idx) = n_clusters
        /\ exceedance_indices = <<10, 11, 20, 21, 22, 40>> =>
              /\ n_clusters = 3
              /\ cluster_idx = << <<10, 11>>, <<20, 21, 22>>, <<40>> >>

\* The scenario of the specification has been declustered
C5_Witness ==
    /\ Declustered
    /\ exceedance_indices = <<10, 11, 20, 21, 22, 40>>
    /\ cluster_labels = <<0, 0, 1, 1, 1, 2>>

\* C6 as stated: for every exceedance set the extremal index estimate is a
\* number with 0 < theta <= 1.
C6_ThetaInUnitInterval ==
    evt_pc \notin {"idle", "s4"} =>
        RGt(theta, RInt(0)) /\ ~RGt(theta, RInt(1)) /\ ~RIsNaN(theta)

\* C6 as amended: for every non-empty exceedance set the estimate is
\* n_clusters / raw_exceedances with 0 < theta <= 1; for the empty set it
\* is nan.
C6_ThetaInUnitIntervalIfAny ==
    evt_pc \notin {"idle", "s4"} =>
        IF RawExceedances > 0
        THEN /\ ~RIsNaN(theta)
             /\ RGt(theta, RInt(0)) /\ ~RGt(theta, RInt(1))
             /\ theta[1] * RawExceedances = theta[2] * n_clusters
        ELSE RIsNaN(theta) /\ n_clusters = 0

\* Six exceedances in three clusters: theta is 1/2
C6_Witness ==
    /\ Declustered
    /\ RawExceedances = 6
    /\ n_clusters = 3
    /\ theta = <<1, 2>>

\* Every way of choosing one bar from each cluster, in cluster order
RECURSIVE Representatives(_, _)
Representatives(clusters, c) ==
    IF c = 0 THEN {<<>>}
    ELSE { Append(r, clusters[c][m]) :
             r \in Representatives(clusters, c - 1),
             m \in 1..Len(clusters[c]) }

\* C7: for every choice of one representative bar per cluster, running
\* the cluster assignment on the representatives puts each in a cluster of
\* its own, consecutive representatives being at least 5 bars apart.
C7_DeclusterIdempotent ==
    Declustered =>
        \A r \in Representatives(cluster_idx, Len(cluster_idx)) :
            /\ NClusters(ClusterLabels(r, Len(r))) = Len(r)
            /\ ClusterLabels(r, Len(r)) = [k \in 1..Len(r) |-> k - 1]
            /\ \A k \in 2..Len(r) : r[k] - r[k - 1] >= 5

\* Two clusters of more than one bar each, exactly 5 bars apart
C7_Witness ==
    /\ Declustered
    /\ \E c \in 1..(Len(cluster_idx) - 1) :
          /\ Len(cluster_idx[c]) >= 2
          /\ Len(cluster_idx[c + 1]) >= 2
          /\ cluster_idx[c + 1][1]
               - cluster_idx[c][Len(cluster_idx[c])] = 5

\* The sample is too small for the fit: no exceedance, or too few clusters
InsufficientSample ==
    /\ evt_pc \notin {"idle", "s4"}
    /\ RawExceedances = 0 \/ n_clusters < 10

\* C8: with too few cluster maxima for the fit, or no exceedance at all,
\* the run does not end in an error, and once past the fit step it has
\* reported the insufficient-data marker and no fitted parameters.
C8_InsufficientIsNonFatal ==
    InsufficientSample =>
        /\ evt_pc # "crashed"
        /\ evt_pc \in {"s6", "save", "done"} =>
              /\ gpd_report = "insufficient"
              /\ NamesOfFit \cap defined = {}

----------------------------------------------------------------------------
(* Properties of the subsample loop and of the degenerate metrics *)

\* The subsamples with 25 bars or more among the first k
Sized(k) == {j \in 1..k : subsamples[j].n >= 25}

\* C9: for every subsample the loop has been through, whatever the sizes
\* of the subsamples before it, strat_ret is nan and the engine was not
\* called when the subsample has fewer than 25 bars, and strat_ret is the
\* return of run_asymmetry_strategy at threshold 0.75 exactly when it has
\* 25 bars or more.
C9_SubsampleSweep ==
    /\ Len(subsample_results) <= Len(subsamples)
    /\ engine_calls = Cardinality(Sized(Len(subsample_results)))
    /\ \A k \in 1..Len(subsample_results) :
          LET d == subsamples[k]
              x == subsample_results[k]
          IN  /\ x.n = d.n
              /\ d.n < 25 => RIsNaN(x.strat_ret)
              /\ d.n >= 25 =>
                    /\ x.strat_ret = RunStrategy(SubsetTable(d), 75).return
                    /\ x.strat_ret =
                          RInt(IF d.fast_skew > 75 THEN d.weekly_return
                               ELSE 0)

\* An undersized subsample first, then one of exactly 25 bars with a gain
C9_Witness ==
    /\ Len(subsample_results) = 2
    /\ subsamples[1].n = 24
    /\ RIsNaN(subsample_results[1].strat_ret)
    /\ subsamples[2].n = 25
    /\ subsample_results[2].strat_ret = RInt(5)
    /\ engine_calls = 1

\* Every entry of the strategy-return series is the same number
ZeroVariance(sr) == \A k \in 1..Len(sr) : sr[k] = sr[1]

\* C10: when the strategy-return series of a finished run has zero
\* variance, the Sharpe is 0, the Sortino is 0 (with an empty downside set
\* and the 1e-10 denominator too) and the maximum drawdown is 0.
C10_DegenerateMetrics ==
    (pc = "done" /\ ZeroVariance(metrics.strategy_returns)) =>
        /\ RatioIsZero(metrics.sharpe)
        /\ RatioIsZero(metrics.sortino)
        /\ metrics.mdd = RInt(0)
        /\ Downside(metrics.strategy_returns) = <<>>

\* A run that held a position over weeks of zero return
C10_Witness ==
    /\ pc = "done"
    /\ Len(position) >= 4
    /\ \E k \in 1..(Len(position) - 1) : position[k] # 0
    /\ ZeroVariance(metrics.strategy_returns)
    /\ metrics.sortino.eps
    /\ metrics.sharpe = ZeroRatio

----------------------------------------------------------------------------
(* Properties of the entry rule and of the holding counter *)

\* clamp(1 + |ai - 1|, 0.5, 2.0) of a defined Asymmetry Index, in
\* hundredths
Clamped(ai) ==
    LET raw == 100 + (IF ai < 100 THEN 100 - ai ELSE ai - 100)
    IN  IF raw < 50 THEN 50 ELSE IF raw > 200 THEN 200 ELSE raw

\* C11: at every bar t >= 1 whose holding counter at t-1 is below 4, a
\* long signal alone at t-1 gives a long position of the clamped size at
\* t, and a short signal alone at t-1 a short one; t = 1, which uses the
\* signals of bar 0, included.
C11_EntryRule ==
    \A t \in Bars :
        (t >= 1 /\ At0(hold_counter, t - 1) < 4) =>
            /\ (At0(long_signal, t - 1) /\ ~At0(short_signal, t - 1))
                  => At0(position, t) = Clamped(At0(ai_20w, t - 1))
            /\ (At0(short_signal, t - 1) /\ ~At0(long_signal, t - 1))
                  => At0(position, t) = -Clamped(At0(ai_20w, t - 1))

\* C12: at every bar the holding counter is in 0..4, is 0 exactly when the
\* position is 0, is 1 when a non-zero position is entered from flat or
\* with a changed sign, is the previous counter plus 1 when a non-zero
\* position of unchanged sign is held, and equals the length of the
\* current run of bars with the same non-zero sign, which is at most 4.
C12_HoldCounter ==
    \A t \in Bars :
        LET h == At0(hold_counter, t)
            p == At0(position, t)
        IN  /\ h \in 0..4
            /\ (h = 0) <=> (p = 0)
            /\ t = 0 => h = 0
            /\ t >= 1 =>
                  LET q == At0(position, t - 1)
                      g == At0(hold_counter, t - 1)
                  IN  /\ (p # 0 /\ Sign(p) # Sign(q)) => h = 1
                      /\ (p # 0 /\ Sign(p) = Sign(q)) => h = g + 1
            /\ p # 0 =>
                  /\ t - h >= 0
                  /\ \A u \in (t - h + 1)..t :
                        Sign(At0(position, u)) = Sign(p)
                  /\ Sign(At0(position, t - h)) # Sign(p)

\* A short position entered straight from a long one that had been held
\* for 2 bars, and then held for 3 bars
C12_Witness ==
    \E t \in Bars :
        /\ t >= 1
        /\ t + 2 \in Bars
        /\ At0(position, t) < 0
        /\ At0(position, t - 1) > 0
        /\ At0(hold_counter, t - 1) = 2
        /\ At0(hold_counter, t) = 1
        /\ At0(hold_counter, t + 2) = 3

----------------------------------------------------------------------------
(* Properties of the reported trade count and of the sizes *)

\* The bars at which the sign of the position differs from the sign at
\* the bar before
SignChanges ==
    {t \in Bars : t >= 1 /\ Sign(At0(position, t))
                             # Sign(At0(position, t - 1))}

\* C13: the reported trade count is the number of bars at which the sign
\* of the position differs from the sign at the previous bar, halved; a
\* bar at which a held position only changes magnitude does not count.
C13_TradesAreSignChanges ==
    pc = "done" => metrics.trades = Cardinality(SignChanges) \div 2

\* C17: every non-zero position has magnitude in [1.0, 2.0], so the lower
\* clamp bound 0.5 is never what sizes a position, whatever the Asymmetry
\* Index is; a position sized by an undefined Asymmetry Index has
\* magnitude 2.0.
C17_SizeAtLeastOne ==
    /\ \A t \in Bars :
          LET p == At0(position, t)
          IN  p # 0 =>
                  /\ 100 <= IAbs(p) /\ IAbs(p) <= 200
                  /\ At0(position_size, t) = IAbs(p)
                  /\ IsNaN(At0(ai_20w, t - 1)) => IAbs(p) = 200
    /\ \A a \in {0, 1, 50, 99, 100, 101, 150, 199, 200, 201, 400} :
          100 <= PositionSizing(a) /\ PositionSizing(a) <= 200
    /\ PositionSizing(NaN) = 200

\* Positions sized by an undefined Asymmetry Index, by one of 1.0 and by
\* one of 0.5 in the same run
C17_Witness ==
    \E t \in Bars, u \in Bars, v \in Bars :
        /\ t >= 2 /\ u >= 2 /\ v >= 2
        /\ IsNaN(At0(ai_20w, t - 1)) /\ At0(position, t) = 200
        /\ At0(ai_20w, u - 1) = 100 /\ At0(position, u) = 100
        /\ At0(ai_20w, v - 1) = 50 /\ At0(position, v) = -150

----------------------------------------------------------------------------
(* Properties of the fit guard *)

\* C14: once section 5 has decided, the fit was performed exactly when
\* there are at least 10 cluster maxima (10 included), and it was skipped
\* and reported as insufficient data only when there are fewer than 10.
C14_FitFromTenMaxima ==
    gpd_report # "none" =>
        /\ (gpd_report = "fitted") <=> (Len(cluster_idx) >= 10)
        /\ (gpd_report = "insufficient") => (Len(cluster_idx) < 10)

----------------------------------------------------------------------------
(* Properties of the warm-up of the tail alpha *)

\* The observations the rolling quantile has at bar t: the bars 1..t
PriorObservations(t) == Len(WindowValues(daily_returns, t))

\* C15: every bar of the tail alpha that lacks its trailing history
\* (fewer than 60 observations for the rolling 95th percentile, or the
\* undefined return of the first bar) holds a missing value, never 0.
C15_WarmUpIsMissing ==
    signal_pc = "done" =>
        \A t \in 0..(Len(daily_returns) - 1) :
            (IsNaN(At0(daily_returns, t)) \/ PriorObservations(t) < 60)
                => IsNaN(At0(tail_alpha, t))

====
